---- MODULE Spec2Model ----
(***************************************************************************)
(* A state-machine model of rs-spiral (src/src/main.rs): the MyGame        *)
(* simulation (tick), the field renderer (draw_field, draw_nearest_line,   *)
(* draw_interp_line) and the ggez event handlers.                          *)
(*                                                                         *)
(* Number representation.  The program computes in f32 and in integer      *)
(* nanoseconds (Instant / Duration).                                       *)
(*   - Instants and Durations are integers, in nanoseconds, exactly.       *)
(*   - f32 seconds (now_f32, Star::seed) are fixed-point, in 1/Milli s.    *)
(*   - positions are fixed-point, in 1/PosScale of a world unit; velocity  *)
(*     (Star::delta) is in 1/Milli world units per second.                 *)
(*   - the spawn angle and the angular velocity are in units of the        *)
(*     per-tick increment ANGLE_ACCEL * TICK_SCALE; TwoPi is the value of  *)
(*     2.0*PI on that grid (the f32 grid also contains 2.0*PI).            *)
(*   - colour channels are fixed-point, in 1/Milli.                        *)
(*   - the quotients of draw_interp_line are exact rationals: a primitive  *)
(*     carries numerators over its denominator den (f32 rounding of the    *)
(*     quotient is outside the model).                                     *)
(***************************************************************************)
EXTENDS Integers, Sequences, FiniteSets, TLC

(***************************************************************************)
(* Program constants (main.rs 12-24)                                       *)
(***************************************************************************)
TARGET_FPS == 60
NanosPerSec == 1000000000
NanosPerMilli == 1000000
Milli == 1000
TICK_DURATION == NanosPerSec \div TARGET_FPS
STAR_DELAY_MS == 100
STAR_DELAY == STAR_DELAY_MS * NanosPerMilli
STAR_SPEED == 10
STAR_ACCEL == 1
STAR_TIME_COLOR_SCALE == -3
AngleAccelTick == 1
R_SCALE_TENTHS == 2
G_SCALE_TENTHS == 3
B_SCALE_TENTHS == 5
MAX_SEGMENT_LEN == 5
MOUSE_SCALE == 5
PiMilli == 3142
GrayMilli == 300
F32Inf == 2147483647
F32NaN == -2147483647

\* Position units per world unit: one tick moves a star by delta * TICK_SCALE,
\* which is a whole number of position units at this scale.
PosScale == TARGET_FPS

(***************************************************************************)
(* Bounds of the model                                                     *)
(***************************************************************************)
\* 2.0*PI in units of ANGLE_ACCEL * TICK_SCALE
TwoPi == 13
\* half the side of the visible square, in position units
ScreenHalf == 168
\* ticks performed in one behaviour
MaxTicks == 44
\* ticks performed in one behaviour in which an attractor is held during a tick
MaxTicksHeld == 22
\* iterations of update()'s catch-up loop in one call
MaxCatchUp == 2
\* ticks performed while an attractor is held
MaxAttractTicks == 1
\* particles of a renderer input
MaxDrawStars == 3

(***************************************************************************)
(* Arithmetic helpers                                                      *)
(***************************************************************************)
Abs(a) == IF a < 0 THEN -a ELSE a

\* a / b rounded to the nearest integer (b > 0), as an f32 operation rounds
RoundDiv(a, b) == (2 * a + b) \div (2 * b)

\* ceil(a / b) for a >= 0, b > 0
CeilDiv(a, b) == (a + b - 1) \div b

\* squared Euclidean length of a vector
NormSqr(v) == v[1] * v[1] + v[2] * v[2]

\* floor(sqrt(n)) for n in lo*lo .. (hi+1)*(hi+1)-1, by bisection
RECURSIVE SqrtBetween(_, _, _)
SqrtBetween(n, lo, hi) ==
    IF lo >= hi THEN lo
    ELSE LET mid == (lo + hi + 1) \div 2
         IN  IF mid * mid <= n THEN SqrtBetween(n, mid, hi) ELSE SqrtBetween(n, lo, mid - 1)

\* floor(|v|)
FloorNorm(v) == SqrtBetween(NormSqr(v), 0, Abs(v[1]) + Abs(v[2]))

\* ceil(|v|): ceil(|v| / L) = ceil(ceil(|v|) / L) for a whole L, so the segment
\* count computed from it is the one the exact norm gives
CeilNorm(v) ==
    LET r == FloorNorm(v)
    IN  IF r * r = NormSqr(v) THEN r ELSE r + 1

\* |v| rounded to the nearest position unit
RoundNorm(v) ==
    LET r == FloorNorm(v)
    IN  IF NormSqr(v) <= r * r + r THEN r ELSE r + 1

(***************************************************************************)
(* f32 operations on values that may be infinite or NaN                    *)
(***************************************************************************)
FAdd(a, b) ==
    IF a = F32NaN \/ b = F32NaN THEN F32NaN
    ELSE IF a = F32Inf \/ b = F32Inf THEN F32Inf
    ELSE a + b

FSub(a, b) ==
    IF a = F32NaN \/ b = F32NaN THEN F32NaN
    ELSE a - b

FMul(a, k) == IF a = F32NaN THEN F32NaN ELSE a * k

(***************************************************************************)
(* Trigonometry                                                            *)
(***************************************************************************)
\* cos at the eight compass directions, in 1/Milli
CosTable == <<1000, 707, 0, -707, -1000, -707, 0, 707>>

NumDirs == Len(CosTable)

\* the compass direction nearest to a spawn angle in 0..TwoPi
DirOf(a) == RoundDiv(a * NumDirs, TwoPi) % NumDirs

Cos(a) == CosTable[DirOf(a) + 1]

Sin(a) == CosTable[((DirOf(a) + 3 * (NumDirs \div 4)) % NumDirs) + 1]

\* sin of y in 0..PiMilli (1/Milli rad), in 1/Milli: Bhaskara's rational form
\* 16 y (pi - y) / (5 pi^2 - 4 y (pi - y))
SinHalf(y) ==
    LET p == y * (PiMilli - y)
    IN  (16 * p) \div ((5 * PiMilli * PiMilli - 4 * p) \div Milli)

\* sin of any x (1/Milli rad), in 1/Milli
SinMilli(x) ==
    LET m == x % (2 * PiMilli)
    IN  IF m <= PiMilli THEN SinHalf(m) ELSE -SinHalf(m - PiMilli)

(***************************************************************************)
(* Host collaborators (ggez)                                               *)
(***************************************************************************)
\* graphics::screen_coordinates(ctx): the window's square, translated so that
\* the origin is its centre
Screen == [x |-> -ScreenHalf, y |-> -ScreenHalf, w |-> 2 * ScreenHalf, h |-> 2 * ScreenHalf]

\* graphics::Rect::contains: the edges belong to the rectangle
Contains(rect, pt) ==
    /\ pt[1] >= rect.x
    /\ pt[1] <= rect.x + rect.w
    /\ pt[2] >= rect.y
    /\ pt[2] <= rect.y + rect.h

\* Option<Point2<f32>>::None
NoMouse == <<>>

\* window coordinates at which pointer events arrive: a point a particle
\* spawned at angle 0 passes through
MousePix == {<<ScreenHalf + 7 * STAR_SPEED, ScreenHalf>>}

MouseButtons == {"Left", "Right"}

KeyCodes == {"Space", "P", "N", "S", "Escape"}

(***************************************************************************)
(* Star                                                                    *)
(***************************************************************************)
\* Star::spawn.  born is a history field: the spawn time, which seed holds
\* until an attractor changes it.
SpawnUnseeded(a, now_f32) ==
    [pos |-> <<0, 0>>,
     delta |-> <<Cos(a) * STAR_SPEED, Sin(a) * STAR_SPEED>>,
     seed |-> 0,
     born |-> now_f32]

Spawn(a, now_f32) ==
    [pos |-> <<0, 0>>,
     delta |-> <<Cos(a) * STAR_SPEED, Sin(a) * STAR_SPEED>>,
     seed |-> now_f32,
     born |-> now_f32]

\* v * TICK_SCALE for a velocity component v, in position units
TickScaled(v) == RoundDiv(v * PosScale, TARGET_FPS * Milli)

\* Star::tick
StarTickStill(st) ==
    [st EXCEPT !.delta = <<st.delta[1] * STAR_ACCEL, st.delta[2] * STAR_ACCEL>>]

StarTick(st) ==
    [st EXCEPT !.pos = <<st.pos[1] + TickScaled(st.delta[1]), st.pos[2] + TickScaled(st.delta[2])>>,
               !.delta = <<st.delta[1] * STAR_ACCEL, st.delta[2] * STAR_ACCEL>>]

\* Star::distance_sqr_to
DistanceSqrTo(st, other) ==
    (other.pos[1] - st.pos[1]) * (other.pos[1] - st.pos[1])
    + (other.pos[2] - st.pos[2]) * (other.pos[2] - st.pos[2])

\* one channel of Star::color: 0.5 + 0.5 * sin((seed + scaled_now) * scale)
Channel(seed, scaled_now, scale_tenths) ==
    IF seed = F32Inf \/ seed = F32NaN THEN F32NaN
    ELSE Milli \div 2 + RoundDiv((Milli \div 2) * SinMilli(RoundDiv((seed + scaled_now) * scale_tenths, 10)), Milli)

\* Star::color
StarColor(st, now_f32) ==
    LET scaled_now == now_f32 * STAR_TIME_COLOR_SCALE
    IN  <<Channel(st.seed, scaled_now, R_SCALE_TENTHS),
          Channel(st.seed, scaled_now, G_SCALE_TENTHS),
          Channel(st.seed, scaled_now, B_SCALE_TENTHS)>>

(***************************************************************************)
(* MyGame::tick                                                            *)
(***************************************************************************)
\* MyGame::now_f32: the simulated elapsed time in seconds, as f32
NowF32(now_, start_) == RoundDiv(now_ - start_, NanosPerMilli)

\* self.now += TICK_DURATION
TickClockDrift(now_) == now_ + TICK_DURATION + 1

TickClock(now_) == now_ + TICK_DURATION

\* self.now.duration_since(self.last_star) >= STAR_DELAY
SpawnDueRounded(now_, last_) == RoundDiv(now_ - last_, NanosPerMilli) * NanosPerMilli >= STAR_DELAY

SpawnDue(now_, last_) == now_ - last_ >= STAR_DELAY

\* self.stars.push_back(..)
PushFront(sts, st) == <<st>> \o sts

PushBack(sts, st) == Append(sts, st)

\* while self.stars.front().map_or(false, |s| !screen.contains(s.pos)) { pop_front }
EvictNone(sts, rect) == sts

RECURSIVE EvictFront(_, _)
EvictFront(sts, rect) ==
    IF sts # <<>> /\ ~Contains(rect, Head(sts).pos)
    THEN EvictFront(Tail(sts), rect)
    ELSE sts

\* x += d; if x > 2.0*PI { x -= 2.0*PI }
WrapNever(x) == x

Wrap(x) == IF x > TwoPi THEN x - TwoPi ELSE x

\* star.seed += MOUSE_SCALE / (mouse_point - star.pos).norm()
AttractPull(st, mouse_point) ==
    LET norm == RoundNorm(<<mouse_point[1] - st.pos[1], mouse_point[2] - st.pos[2]>>)
        delta == IF norm = 0 THEN F32Inf ELSE RoundDiv(MOUSE_SCALE * PosScale * Milli, norm)
    IN  [st EXCEPT !.seed = FAdd(st.seed, delta),
                   !.pos = <<st.pos[1] + (mouse_point[1] - st.pos[1]) \div PosScale,
                             st.pos[2] + (mouse_point[2] - st.pos[2]) \div PosScale>>]

Attract(st, mouse_point) ==
    LET norm == RoundNorm(<<mouse_point[1] - st.pos[1], mouse_point[2] - st.pos[2]>>)
        delta == IF norm = 0 THEN F32Inf ELSE RoundDiv(MOUSE_SCALE * PosScale * Milli, norm)
    IN  [st EXCEPT !.seed = FAdd(st.seed, delta)]

\* MyGame::tick on the world fields s of MyGame; ticks and spawned are history
\* fields counting the calls and the spawns
Tick(s, rect, mouse_point, start_) ==
    LET now1 == TickClock(s.now)
        due == SpawnDue(now1, s.last_star)
        stars1 == IF due THEN PushBack(s.stars, Spawn(s.angle, NowF32(now1, start_))) ELSE s.stars
        stars2 == EvictFront(stars1, rect)
        stars3 == [i \in DOMAIN stars2 |-> StarTick(stars2[i])]
        stars4 == IF mouse_point # NoMouse
                  THEN [i \in DOMAIN stars3 |-> Attract(stars3[i], mouse_point)]
                  ELSE stars3
    IN  [angle |-> Wrap(s.angle + s.angle_delta),
         angle_delta |-> Wrap(s.angle_delta + AngleAccelTick),
         stars |-> stars4,
         last_star |-> IF due THEN now1 ELSE s.last_star,
         now |-> now1,
         ticks |-> s.ticks + 1,
         spawned |-> IF due THEN s.spawned + 1 ELSE s.spawned]

RECURSIVE TickTimes(_, _, _, _, _)
TickTimes(n, s, rect, mouse_point, start_) ==
    IF n = 0 THEN s ELSE TickTimes(n - 1, Tick(s, rect, mouse_point, start_), rect, mouse_point, start_)

(***************************************************************************)
(* Field renderer.  A primitive is a record: kind "circle" (graphics::draw *)
(* of star_mesh) or "gray" / "interp" (draw_line from draw_nearest_line /  *)
(* draw_interp_line); start, end and color are numerators over den; from   *)
(* and to are the indices (from 1) of the particles it belongs to.         *)
(***************************************************************************)
\* usize subtraction: a - b, or a panic on underflow
USub(a, b) == IF a >= b THEN [ok |-> TRUE, val |-> a - b] ELSE [ok |-> FALSE, val |-> 0]

NoOutput == [prims |-> <<>>, calls |-> <<>>, panic |-> FALSE]

PanicOutput == [prims |-> <<>>, calls |-> <<>>, panic |-> TRUE]

\* (pos_vec.norm() / MAX_SEGMENT_LEN).ceil() as i32
SegmentsFloor(pos_vec) == RoundNorm(pos_vec) \div (MAX_SEGMENT_LEN * PosScale)

Segments(pos_vec) == CeilDiv(CeilNorm(pos_vec), MAX_SEGMENT_LEN * PosScale)

\* pos = next
AdvancePosStuck(pos, next) == pos

AdvancePos(pos, next) == next

\* the loop of draw_interp_line: k segments left, running pos and color
RECURSIVE InterpLoop(_, _, _, _, _, _, _, _, _)
InterpLoop(k, pos, color, pos_delta, color_delta, den, from, to, acc) ==
    IF k = 0 THEN acc
    ELSE LET next == <<pos[1] + pos_delta[1], pos[2] + pos_delta[2]>>
             line == [kind |-> "interp", from |-> from, to |-> to,
                      start |-> pos, end |-> next, color |-> color, den |-> den]
         IN  InterpLoop(k - 1, AdvancePos(pos, next),
                        <<FAdd(color[1], color_delta[1]), FAdd(color[2], color_delta[2]),
                          FAdd(color[3], color_delta[3])>>,
                        pos_delta, color_delta, den, from, to, Append(acc, line))

\* draw_interp_line.  With n = segments, pos_delta = pos_vec / n and
\* color_delta = (nearest_color - color) / n are kept as numerators over n.
InterpLine(star, nearest, now_f32, from, to) ==
    LET pos_vec == <<nearest.pos[1] - star.pos[1], nearest.pos[2] - star.pos[2]>>
        segments == Segments(pos_vec)
        color == StarColor(star, now_f32)
        nearest_color == StarColor(nearest, now_f32)
        color_delta == <<FSub(nearest_color[1], color[1]), FSub(nearest_color[2], color[2]),
                         FSub(nearest_color[3], color[3])>>
    IN  [prims |-> InterpLoop(segments, <<star.pos[1] * segments, star.pos[2] * segments>>,
                              <<FMul(color[1], segments), FMul(color[2], segments),
                                FMul(color[3], segments)>>,
                              pos_vec, color_delta, segments, from, to, <<>>),
         calls |-> <<[from |-> from, to |-> to, segments |-> segments]>>,
         panic |-> FALSE]

\* draw_line(ctx, star.pos, others[1].pos, gray)
GrayLine(star, other, from, to) ==
    [kind |-> "gray", from |-> from, to |-> to, start |-> star.pos, end |-> other.pos,
     color |-> <<GrayMilli, GrayMilli, GrayMilli>>, den |-> 1]

\* the comparator of others.sort_by (a stable sort): an element already placed
\* stays before a new one unless its distance is greater
StaysBeforeStrict(d_placed, d_new) == d_placed < d_new

StaysBefore(d_placed, d_new) == d_placed <= d_new

\* others with index j inserted behind the elements that stay before it
RECURSIVE InsertByDistance(_, _, _, _)
InsertByDistance(sorted, j, sts, ix) ==
    IF sorted # <<>> /\ StaysBefore(DistanceSqrTo(sts[ix], sts[Head(sorted)]), DistanceSqrTo(sts[ix], sts[j]))
    THEN <<Head(sorted)>> \o InsertByDistance(Tail(sorted), j, sts, ix)
    ELSE <<j>> \o sorted

\* the first candidate index of draw_nearest_line's scan: ix + 1
FirstOtherAny(ix) == 1

FirstOther(ix) == ix + 1

\* others: the indices FirstOther(ix)..Len(sts), sorted by distance to sts[ix]
RECURSIVE SortedOthers(_, _, _)
SortedOthers(j, sts, ix) ==
    IF j < FirstOther(ix) THEN <<>>
    ELSE InsertByDistance(SortedOthers(j - 1, sts, ix), j, sts, ix)

\* MyGame::draw_nearest_line
DrawNearestLineUngated(sts, ix, primary, secondary, now_f32) ==
    LET others == SortedOthers(Len(sts), sts, ix)
        second == IF Len(others) > 1
                  THEN <<GrayLine(sts[ix], sts[others[2]], ix, others[2])>>
                  ELSE <<>>
        first == IF primary /\ Len(others) > 0
                 THEN InterpLine(sts[ix], sts[others[1]], now_f32, ix, others[1])
                 ELSE NoOutput
    IN  [prims |-> second \o first.prims, calls |-> first.calls, panic |-> FALSE]

DrawNearestLine(sts, ix, primary, secondary, now_f32) ==
    LET others == SortedOthers(Len(sts), sts, ix)
        second == IF secondary /\ Len(others) > 1
                  THEN <<GrayLine(sts[ix], sts[others[2]], ix, others[2])>>
                  ELSE <<>>
        first == IF primary /\ Len(others) > 0
                 THEN InterpLine(sts[ix], sts[others[1]], now_f32, ix, others[1])
                 ELSE NoOutput
    IN  [prims |-> second \o first.prims, calls |-> first.calls, panic |-> FALSE]

\* the body of draw_field's loop for the particle at index i (ix = i - 1)
DrawStar(sts, i, mode, primary, secondary, now_f32) ==
    IF mode = "Points"
    THEN [prims |-> <<[kind |-> "circle", from |-> i, to |-> i, start |-> sts[i].pos,
                       end |-> sts[i].pos, color |-> StarColor(sts[i], now_f32), den |-> 1]>>,
          calls |-> <<>>, panic |-> FALSE]
    ELSE LET last == USub(Len(sts), 1)
         IN  IF ~last.ok THEN PanicOutput
             ELSE IF i - 1 >= last.val THEN NoOutput
             ELSE DrawNearestLine(sts, i, primary, secondary, now_f32)

RECURSIVE DrawFrom(_, _, _, _, _, _, _)
DrawFrom(i, sts, mode, primary, secondary, now_f32, acc) ==
    IF i > Len(sts) \/ acc.panic THEN acc
    ELSE LET out == DrawStar(sts, i, mode, primary, secondary, now_f32)
         IN  DrawFrom(i + 1, sts, mode, primary, secondary, now_f32,
                      [prims |-> acc.prims \o out.prims, calls |-> acc.calls \o out.calls,
                       panic |-> out.panic])

\* MyGame::draw_field
DrawFieldHoisted(sts, mode, primary, secondary, now_f32) ==
    IF mode = "Lines" /\ ~USub(Len(sts), 1).ok THEN PanicOutput
    ELSE DrawFrom(1, sts, mode, primary, secondary, now_f32, NoOutput)

DrawField(sts, mode, primary, secondary, now_f32) ==
    DrawFrom(1, sts, mode, primary, secondary, now_f32, NoOutput)

(***************************************************************************)
(* State: the fields of MyGame, the output of the handler that ran last,   *)
(* and history variables                                                   *)
(***************************************************************************)
VARIABLES
    angle, angle_delta, stars, last_star, now, start,                  \* World
    running, draw_mode, primary_nearest, secondary_nearest, mouse,     \* Input
    rendered,     \* the handler that ran last was draw()
    drawn,        \* the primitives it emitted, in order
    calls,        \* its calls of draw_interp_line: [from, to, segments]
    panicked,     \* a handler panicked: the process is gone
    redrawn,      \* history: the last two handlers that ran were both draw()
    ticks,        \* history: calls of tick() so far
    spawned,      \* history: particles spawned so far
    attracted,    \* history: ticks performed with an attractor held
    left_held     \* history: the last event of the left button was a button-down

world == <<angle, angle_delta, stars, last_star, now, start>>
input == <<running, draw_mode, primary_nearest, secondary_nearest, mouse>>
output == <<rendered, drawn, calls, panicked, redrawn>>
history == <<ticks, spawned, attracted>>
vars == <<world, input, output, history, left_held>>

\* the world fields as the record Tick works on
Sim ==
    [angle |-> angle, angle_delta |-> angle_delta, stars |-> stars,
     last_star |-> last_star, now |-> now, ticks |-> ticks, spawned |-> spawned]

\* a handler other than draw() emits nothing
NoFrame == rendered' = FALSE /\ redrawn' = FALSE /\ drawn' = <<>> /\ calls' = <<>> /\ UNCHANGED panicked

\* MyGame::new (start is Instant::now(), taken as the origin of time) and the
\* history variables
Init ==
    /\ angle = 0
    /\ angle_delta = 0
    /\ stars = <<>>
    /\ last_star = 0
    /\ now = 0
    /\ start = 0
    /\ running = TRUE
    /\ draw_mode = "Lines"
    /\ primary_nearest = TRUE
    /\ secondary_nearest = FALSE
    /\ mouse = NoMouse
    /\ rendered = FALSE
    /\ drawn = <<>>
    /\ calls = <<>>
    /\ panicked = FALSE
    /\ redrawn = FALSE
    /\ ticks = 0
    /\ spawned = 0
    /\ attracted = 0
    /\ left_held = FALSE

\* if self.running { self.tick(&screen) } else { timer::yield_now() }
ShouldTickAlways(running_) == TRUE

ShouldTick(running_) == running_

\* EventHandler::update: timer::check_update_time grants n iterations
Update(n) ==
    /\ ~panicked
    /\ IF ShouldTick(running)
       THEN /\ ticks + n <= MaxTicks
            /\ (mouse # NoMouse /\ n > 0) => attracted + n <= MaxAttractTicks
            /\ (attracted > 0 \/ (mouse # NoMouse /\ n > 0)) => ticks + n <= MaxTicksHeld
            /\ LET s == TickTimes(n, Sim, Screen, mouse, start)
               IN  /\ angle' = s.angle
                   /\ angle_delta' = s.angle_delta
                   /\ stars' = s.stars
                   /\ last_star' = s.last_star
                   /\ now' = s.now
                   /\ ticks' = s.ticks
                   /\ spawned' = s.spawned
            /\ attracted' = IF mouse # NoMouse THEN attracted + n ELSE attracted
            /\ UNCHANGED start
       ELSE UNCHANGED <<world, history>>
    /\ UNCHANGED <<input, left_held>>
    /\ NoFrame

\* EventHandler::draw
DrawTicking ==
    /\ ~panicked
    /\ LET out == DrawField(stars, draw_mode, primary_nearest, secondary_nearest, NowF32(now, start))
       IN  /\ drawn' = out.prims
           /\ calls' = out.calls
           /\ panicked' = out.panic
    /\ rendered' = TRUE
    /\ redrawn' = rendered
    /\ now' = TickClock(now)
    /\ UNCHANGED <<angle, angle_delta, stars, last_star, start, input, history, left_held>>

Draw ==
    /\ ~panicked
    /\ LET out == DrawField(stars, draw_mode, primary_nearest, secondary_nearest, NowF32(now, start))
       IN  /\ drawn' = out.prims
           /\ calls' = out.calls
           /\ panicked' = out.panic
    /\ rendered' = TRUE
    /\ redrawn' = rendered
    /\ UNCHANGED <<world, input, history, left_held>>

\* the configuration flags of MyGame's Input fields
Config ==
    [running |-> running, draw_mode |-> draw_mode,
     primary_nearest |-> primary_nearest, secondary_nearest |-> secondary_nearest]

\* the match of key_up_event on the configuration flags c
KeyMatchSticky(keycode, c) ==
    [running |-> IF keycode = "Space" THEN ~c.running ELSE c.running,
     draw_mode |-> IF keycode = "P"
                   THEN (IF c.draw_mode = "Points" THEN "Lines" ELSE "Points")
                   ELSE c.draw_mode,
     primary_nearest |-> IF keycode = "N" THEN ~c.primary_nearest ELSE c.primary_nearest,
     secondary_nearest |-> IF keycode = "S" THEN TRUE ELSE c.secondary_nearest]

KeyMatch(keycode, c) ==
    [running |-> IF keycode = "Space" THEN ~c.running ELSE c.running,
     draw_mode |-> IF keycode = "P"
                   THEN (IF c.draw_mode = "Points" THEN "Lines" ELSE "Points")
                   ELSE c.draw_mode,
     primary_nearest |-> IF keycode = "N" THEN ~c.primary_nearest ELSE c.primary_nearest,
     secondary_nearest |-> IF keycode = "S" THEN ~c.secondary_nearest ELSE c.secondary_nearest]

\* EventHandler::key_up_event
KeyUp(keycode) ==
    /\ ~panicked
    /\ LET c == KeyMatch(keycode, Config)
       IN  /\ running' = c.running
           /\ draw_mode' = c.draw_mode
           /\ primary_nearest' = c.primary_nearest
           /\ secondary_nearest' = c.secondary_nearest
    /\ UNCHANGED <<world, mouse, history, left_held>>
    /\ NoFrame

\* EventHandler::mouse_button_down_event
MouseButtonDown(button, x, y) ==
    /\ ~panicked
    /\ mouse' = IF button # "Left" THEN mouse ELSE <<x + Screen.x, y + Screen.y>>
    /\ left_held' = IF button # "Left" THEN left_held ELSE TRUE
    /\ UNCHANGED <<world, running, draw_mode, primary_nearest, secondary_nearest, history>>
    /\ NoFrame

\* EventHandler::mouse_button_up_event
MouseButtonUp(button) ==
    /\ ~panicked
    /\ mouse' = IF button # "Left" THEN mouse ELSE NoMouse
    /\ left_held' = IF button # "Left" THEN left_held ELSE FALSE
    /\ UNCHANGED <<world, running, draw_mode, primary_nearest, secondary_nearest, history>>
    /\ NoFrame

\* EventHandler::mouse_motion_event
MouseMotionAlways(x, y) ==
    /\ ~panicked
    /\ mouse' = <<x + Screen.x, y + Screen.y>>
    /\ UNCHANGED <<world, running, draw_mode, primary_nearest, secondary_nearest, history, left_held>>
    /\ NoFrame

MouseMotion(x, y) ==
    /\ ~panicked
    /\ mouse' = IF mouse = NoMouse THEN mouse ELSE <<x + Screen.x, y + Screen.y>>
    /\ UNCHANGED <<world, running, draw_mode, primary_nearest, secondary_nearest, history, left_held>>
    /\ NoFrame

\* event::run: the host loop calls the handlers in any order
Next ==
    \/ \E n \in 0..MaxCatchUp : Update(n)
    \/ Draw
    \/ \E k \in KeyCodes : KeyUp(k)
    \/ \E b \in MouseButtons, p \in MousePix : MouseButtonDown(b, p[1], p[2])
    \/ \E b \in MouseButtons : MouseButtonUp(b)
    \/ \E p \in MousePix : MouseMotion(p[1], p[2])

Spec == Init /\ [][Next]_vars

(***************************************************************************)
(* The renderer as a function of its input: any collection of at most      *)
(* MaxDrawStars particles on DrawGrid, drawn under every toggle setting    *)
(***************************************************************************)
\* ticks between two spawns
SpawnPeriod == CeilDiv(STAR_DELAY, TICK_DURATION)

SegmentUnits == MAX_SEGMENT_LEN * PosScale

DrawGrid ==
    {<<0, 0>>, <<STAR_SPEED, 0>>, <<SegmentUnits, 0>>, <<2 * SegmentUnits, 0>>,
     <<SegmentUnits, SegmentUnits + SegmentUnits \div 3>>}

InitDraw ==
    /\ angle = 0
    /\ angle_delta = 0
    /\ \E n \in 0..MaxDrawStars : \E f \in [1..n -> DrawGrid] :
           /\ stars = [i \in 1..n |-> [Spawn(0, NowF32(i * SpawnPeriod * TICK_DURATION, 0)) EXCEPT !.pos = f[i]]]
           /\ spawned = n
    /\ ticks = (MaxDrawStars + 1) * SpawnPeriod
    /\ now = ticks * TICK_DURATION
    /\ last_star = now
    /\ start = 0
    /\ running = FALSE
    /\ draw_mode = "Lines"
    /\ primary_nearest = TRUE
    /\ secondary_nearest = FALSE
    /\ mouse = NoMouse
    /\ rendered = FALSE
    /\ drawn = <<>>
    /\ calls = <<>>
    /\ panicked = FALSE
    /\ redrawn = FALSE
    /\ attracted = 0
    /\ left_held = FALSE

NextDraw ==
    \/ Draw
    \/ \E k \in KeyCodes : KeyUp(k)

SpecDraw == InitDraw /\ [][NextDraw]_vars

(***************************************************************************)
(* The event handlers on a paused field: key and pointer events, the       *)
(* pointer at the corners, the centre and an edge of the window, with      *)
(* frames drawn in between                                                 *)
(***************************************************************************)
PointerPix ==
    {<<0, 0>>, <<ScreenHalf, ScreenHalf>>, <<2 * ScreenHalf, ScreenHalf>>, <<2 * ScreenHalf, 2 * ScreenHalf>>}

NextInput ==
    \/ Draw
    \/ \E k \in KeyCodes : KeyUp(k)
    \/ \E b \in MouseButtons, p \in PointerPix : MouseButtonDown(b, p[1], p[2])
    \/ \E b \in MouseButtons : MouseButtonUp(b)
    \/ \E p \in PointerPix : MouseMotion(p[1], p[2])

SpecInput == InitDraw /\ [][NextInput]_vars

(***************************************************************************)
(* The running simulation: the pause key and the pointer left alone, the   *)
(* host loop granting update() an iteration again and again while frames   *)
(* are drawn and the display keys pressed                                  *)
(***************************************************************************)
NextRun ==
    \/ \E n \in 0..MaxCatchUp : Update(n)
    \/ Draw
    \/ \E k \in KeyCodes \ {"Space"} : KeyUp(k)

\* event::run calls update() in every iteration of its loop, and
\* timer::check_update_time grants a tick once 1/TARGET_FPS s have passed
SpecRun == Init /\ [][NextRun]_vars /\ WF_vars(\E n \in 1..MaxCatchUp : Update(n))

(***************************************************************************)
(* Properties                                                              *)
(***************************************************************************)
Range(seq) == {seq[i] : i \in DOMAIN seq}

\* the spawn times of a collection, front to back
Born(sts) == [i \in DOMAIN sts |-> sts[i].born]

StrictlyIncreasing(seq) == \A i \in DOMAIN seq : \A j \in DOMAIN seq : i < j => seq[i] < seq[j]

\* C1: after any tick, every particle in the collection, at any
\* index, is inside the visible bounds passed to that tick.
C1_AllInsideBounds ==
    ticks > 0 => \A i \in DOMAIN stars : Contains(Screen, stars[i].pos)

\* C1's case: ticks have run, the front particle is inside the bounds and a
\* particle behind it is outside.
C1_Witness ==
    /\ ticks > 0
    /\ stars # <<>>
    /\ Contains(Screen, Head(stars).pos)
    /\ \E i \in DOMAIN stars : i > 1 /\ ~Contains(Screen, stars[i].pos)

\* C2: after k ticks, at simulated time T = k * TICK_DURATION, the
\* number of particles spawned so far is floor(T' / STAR_DELAY) for some T'
\* within one TICK_DURATION of T.
C2_SpawnCountTracksTime ==
    LET T == now - start
        lo == (IF T >= TICK_DURATION THEN T - TICK_DURATION ELSE 0) \div STAR_DELAY
        hi == (T + TICK_DURATION) \div STAR_DELAY
    IN  lo <= spawned /\ spawned <= hi

\* C3: after k calls of tick(), now - start = k * TICK_DURATION exactly,
\* whatever update, draw, key and pointer events ran in between; no other
\* operation moves the clock.
C3_ClockIsTickCount ==
    now - start = ticks * TICK_DURATION

\* C3's case: several ticks have run, interleaved with a pause, a pointer
\* press and a draw.
C3_Witness ==
    ticks >= 3 /\ ~running /\ mouse # NoMouse /\ rendered

C5_SpawnOrder ==
    [][LET old == Born(stars)
           new == Born(stars')
       IN  /\ StrictlyIncreasing(new)
           /\ \E k \in 0..Len(old) :
                  LET kept == SubSeq(old, k + 1, Len(old))
                  IN  /\ Len(new) >= Len(kept)
                      /\ SubSeq(new, 1, Len(kept)) = kept
                      /\ \A i \in (Len(kept) + 1)..Len(new) : new[i] > NowF32(now, start)]_vars

\* C5's case: particles have been spawned and evicted and several remain.
C5_Witness ==
    Len(stars) >= 2 /\ spawned > Len(stars)

\* C6: while paused, no step (update, draw, key or pointer event) changes the
\* clock, the last-spawn time, the angles or the collection, nor does the step
\* that pauses or un-pauses, so now - last_star, the time to the next spawn,
\* is after the pause what it was before; a draw() while paused renders the
\* particles of the frozen state.
C6_PauseFreezes ==
    [][/\ (~running \/ running' # running) => UNCHANGED <<world, ticks, spawned>>
       /\ (~running /\ rendered' /\ draw_mode = "Points") =>
              [i \in DOMAIN drawn' |-> drawn'[i].start] = [i \in DOMAIN stars |-> stars[i].pos]]_vars

\* C6's case: paused after ticks, with the frozen state rendered.
C6_Witness ==
    ~running /\ rendered /\ drawn # <<>> /\ ticks > 0 /\ last_star # now

\* the later-spawned particle nearest to the one at index i, the indices in
\* excl left out: least squared distance, and the least index among equals
NearestLater(i, excl) ==
    LET cand == ((i + 1)..Len(stars)) \ excl
    IN  CHOOSE j \in cand : \A k \in cand :
            \/ DistanceSqrTo(stars[i], stars[j]) < DistanceSqrTo(stars[i], stars[k])
            \/ (DistanceSqrTo(stars[i], stars[j]) = DistanceSqrTo(stars[i], stars[k]) /\ j <= k)

\* the interpolated segments drawn for the connector that starts at index i
SegmentsFrom(i) == SelectSeq(drawn, LAMBDA p : p.kind = "interp" /\ p.from = i)

\* C7: in line mode the interpolated connector of a particle goes to the
\* later-spawned particle at the least squared distance and its gray connector
\* to the least among the remaining later-spawned ones, the first in spawn
\* order winning a tie; an earlier-spawned particle is never chosen.
C7_NearestSelection ==
    /\ \A c \in Range(calls) : c.to > c.from /\ c.to = NearestLater(c.from, {})
    /\ \A p \in Range(drawn) : p.kind = "gray" =>
           p.to > p.from /\ p.to = NearestLater(p.from, {NearestLater(p.from, {})})

\* C7's case: a frame in line mode with a gray connector, and a primary
\* nearest that a later particle ties with in distance.
C7_Witness ==
    /\ rendered /\ draw_mode = "Lines"
    /\ \E p \in Range(drawn) : p.kind = "gray"
    /\ \E c \in Range(calls) : \E k \in (c.to + 1)..Len(stars) :
           DistanceSqrTo(stars[c.from], stars[k]) = DistanceSqrTo(stars[c.from], stars[c.to])

\* n = ceil(sqrt(d2) / MAX_SEGMENT_LEN), stated without a square root
IsSegmentCount(n, d2) ==
    /\ n >= 0
    /\ (n * SegmentUnits) * (n * SegmentUnits) >= d2
    /\ n > 0 => ((n - 1) * SegmentUnits) * ((n - 1) * SegmentUnits) < d2

C9_InterpChain ==
    \A c \in Range(calls) :
        LET segs == SegmentsFrom(c.from)
            n == Len(segs)
            A == stars[c.from]
            B == stars[c.to]
            ca == StarColor(A, NowF32(now, start))
            cb == StarColor(B, NowF32(now, start))
        IN  /\ n > 0 => segs[1].start = <<A.pos[1] * n, A.pos[2] * n>>
            /\ n > 0 => segs[n].end = <<B.pos[1] * n, B.pos[2] * n>>
            /\ \A i \in 1..n :
                   /\ segs[i].den = n
                   /\ segs[i].end = <<segs[i].start[1] + B.pos[1] - A.pos[1],
                                      segs[i].start[2] + B.pos[2] - A.pos[2]>>
                   /\ i < n => segs[i + 1].start = segs[i].end
                   /\ segs[i].color = [ch \in 1..3 |-> ca[ch] * n + (i - 1) * (cb[ch] - ca[ch])]

\* C9's case: the connector from (0,0) to (10,0), twice MAX_SEGMENT_LEN: two
\* segments, the first ending at (5,0), the second in the midpoint colour, the
\* two end colours being different.
C9_Witness ==
    /\ rendered
    /\ \E c \in Range(calls) :
           LET segs == SegmentsFrom(c.from)
           IN  /\ stars[c.from].pos = <<0, 0>>
               /\ stars[c.to].pos = <<2 * SegmentUnits, 0>>
               /\ Len(segs) = 2
               /\ segs[1].end = <<2 * SegmentUnits, 0>> /\ segs[1].den = 2
               /\ segs[2].color # segs[1].color
               /\ segs[2].color = [ch \in 1..3 |->
                      StarColor(stars[c.from], NowF32(now, start))[ch]
                      + StarColor(stars[c.to], NowF32(now, start))[ch]]

\* C10: a draw in line mode of a collection of 0 or 1 particles emits no
\* primitive and does not panic, whatever the two nearest toggles are.
C10_FewParticles ==
    (Len(stars) <= 1 /\ draw_mode = "Lines") =>
        (~panicked /\ drawn = <<>> /\ calls = <<>>)

\* C10's case: a frame drawn in line mode of a single particle, both toggles on.
C10_Witness ==
    /\ rendered /\ ~panicked /\ draw_mode = "Lines"
    /\ Len(stars) = 1 /\ primary_nearest /\ secondary_nearest

\* C11: draw() leaves the clock, the angles, the collection, the toggles and
\* the attractor as they are, and a draw() that directly follows a draw()
\* (no tick or input event in between) emits the same primitives, of the same
\* kinds, endpoints and colours in the same order, as the one before it.
C11_DrawIsPure ==
    [][rendered' =>
         /\ UNCHANGED <<world, input>>
         /\ redrawn' => (drawn' = drawn /\ calls' = calls /\ panicked' = panicked)]_vars

\* C11's case: two draws in a row of a moving multi-coloured field: a frame of
\* at least two primitives, one of them interpolated, after ticks have run.
C11_Witness ==
    /\ redrawn /\ ticks > 0
    /\ Len(drawn) >= 2
    /\ \E i \in DOMAIN drawn : drawn[i].kind = "interp"

\* the attractor a pointer event at window coordinates p stands for
PointOf(p) == <<p[1] + Screen.x, p[2] + Screen.y>>

\* C12: after any sequence of pointer events an attractor point is present iff
\* the last event of the left button was a button-down; a motion event puts
\* the attractor at its point when one is present and leaves it absent when
\* not; an event of another button leaves the attractor as it is.
C12_AttractorIffLeftHeld ==
    /\ []((mouse # NoMouse) <=> left_held)
    /\ [][/\ \A p \in PointerPix :
               MouseMotion(p[1], p[2]) => mouse' = IF mouse = NoMouse THEN NoMouse ELSE PointOf(p)
          /\ \A b \in MouseButtons \ {"Left"} :
               (MouseButtonUp(b) \/ \E p \in PointerPix : MouseButtonDown(b, p[1], p[2])) => mouse' = mouse]_vars

\* C12's case: the left button is held and the attractor is at a point other
\* than the window's centre, with a frame drawn.
C12_Witness ==
    /\ left_held /\ mouse # NoMouse /\ mouse # <<0, 0>>
    /\ rendered /\ drawn # <<>>

\* the flag a key stands for: none for a key key_up_event does not match
FlagOf(keycode) ==
    CASE keycode = "Space" -> {"running"}
      [] keycode = "P" -> {"draw_mode"}
      [] keycode = "N" -> {"primary_nearest"}
      [] keycode = "S" -> {"secondary_nearest"}
      [] OTHER -> {}

\* C13: a key-up event flips the flag of its key (Space the pause flag, P the
\* mode, N the primary toggle, S the secondary toggle; no flag for another
\* key) and no other flag, leaves clock, angles, collection and attractor as
\* they are, and two events of the same key in a row restore the flags.
C13_KeyFlipsOneFlag ==
    /\ [](\A k \in KeyCodes : KeyMatch(k, KeyMatch(k, Config)) = Config)
    /\ [][\A k \in KeyCodes :
            KeyUp(k) =>
                /\ UNCHANGED <<world, mouse>>
                /\ {f \in DOMAIN Config : Config'[f] # Config[f]} = FlagOf(k)
                /\ draw_mode' \in {"Points", "Lines"}]_vars

\* C13's case: each of the four keys has acted on a field in motion: every
\* flag differs from its initial value, with particles present and an
\* attractor held.
C13_Witness ==
    /\ ~running /\ draw_mode = "Points" /\ ~primary_nearest /\ secondary_nearest
    /\ ticks > 0 /\ Len(stars) >= 2 /\ mouse # NoMouse

\* the collection as the eviction step of a single tick sees it: the
\* particles before the tick and, behind them, the one spawned at the origin
\* in this tick, if any; each entry is a spawn time and a position
AtEviction ==
    [i \in 1..(Len(stars) + (spawned' - spawned)) |->
        IF i <= Len(stars) THEN [born |-> stars[i].born, pos |-> stars[i].pos]
        ELSE [born |-> NowF32(now', start), pos |-> <<0, 0>>]]

\* C14: in each tick the particles removed are a prefix of the collection,
\* each of them outside the bounds at the eviction step; the first particle
\* inside the bounds is retained with every particle behind it, so that no
\* particle inside the bounds at the eviction step is removed.
C14_EvictsPrefix ==
    [][ticks' = ticks + 1 =>
         LET c == AtEviction
             k == Len(c) - Len(stars')
         IN  /\ k \in 0..Len(c)
             /\ Born(stars') = [i \in 1..Len(stars') |-> c[k + i].born]
             /\ \A i \in 1..k : ~Contains(Screen, c[i].pos)
             /\ k < Len(c) => Contains(Screen, c[k + 1].pos)
             /\ \A i \in DOMAIN c :
                    Contains(Screen, c[i].pos) => c[i].born \in Range(Born(stars'))]_vars

\* C14's case: particles have been evicted, and behind the retained front
\* particle a younger one is outside the bounds.
C14_Witness ==
    /\ spawned > Len(stars)
    /\ Len(stars) >= 2
    /\ \E i \in 2..Len(stars) : ~Contains(Screen, stars[i].pos)

\* the last particle of a collection
Back(sts) == sts[Len(sts)]

\* C15: a tick after whose clock advance the time since the last spawn is at
\* least STAR_DELAY appends exactly one particle at the back: created at the
\* origin (one move away from it after the tick), with speed STAR_SPEED in the
\* direction of the spawn angle before this tick's update, seeded with the
\* elapsed time after the clock advance; last_star becomes now.  Any other
\* tick adds no particle and leaves last_star as it is.
C15_SpawnOnDueTick ==
    [][ticks' = ticks + 1 =>
         IF now' - last_star >= STAR_DELAY
         THEN /\ spawned' = spawned + 1
              /\ last_star' = now'
              /\ stars' # <<>>
              /\ Born(stars') = Append(SubSeq(Born(stars), Len(stars) + 2 - Len(stars'), Len(stars)),
                                       NowF32(now', start))
              /\ LET new == Back(stars')
                 IN  /\ new.delta = <<Cos(angle) * STAR_SPEED, Sin(angle) * STAR_SPEED>>
                     /\ RoundDiv(RoundNorm(new.delta), Milli) = STAR_SPEED
                     /\ new.pos = <<TickScaled(new.delta[1]), TickScaled(new.delta[2])>>
                     /\ mouse = NoMouse => new.seed = NowF32(now', start)
         ELSE /\ spawned' = spawned
              /\ last_star' = last_star
              /\ Range(Born(stars')) \subseteq Range(Born(stars))]_vars

\* C15's case: the tick just performed spawned a particle, not the first one,
\* in a direction other than that of angle 0, while older particles move on.
C15_Witness ==
    /\ ticks > 0 /\ last_star = now
    /\ spawned >= 2 /\ Len(stars) >= 2
    /\ Back(stars).born = NowF32(now, start)
    /\ Back(stars).delta # <<Cos(0) * STAR_SPEED, Sin(0) * STAR_SPEED>>

\* C16: in every tick performed with an attractor active, each retained
\* particle is at a non-zero distance from the attractor when the attractor
\* step reaches it (after the move), and its seed stays a finite number.
C16_NonZeroDistance ==
    [][(ticks' = ticks + 1 /\ mouse # NoMouse) =>
         \A i \in DOMAIN stars' :
            /\ stars'[i].pos # mouse
            /\ stars'[i].seed \notin {F32Inf, F32NaN}]_vars

\* C16's case: a tick has been performed with the attractor on a particle:
\* the particle's seed is infinite, and the frame drawn from it has a colour
\* that is not a number.
C16_Witness ==
    /\ attracted > 0 /\ rendered
    /\ \E i \in DOMAIN stars : stars[i].seed = F32Inf
    /\ \E j \in DOMAIN drawn : F32NaN \in Range(drawn[j].color)

\* the squared distance of a particle to the attractor
DistSqr(st, pt) == NormSqr(<<pt[1] - st.pos[1], pt[2] - st.pos[2]>>)

\* C17: a tick with an attractor active differs from the same tick without
\* attractor in the seeds only: positions, velocities, membership and order,
\* clock and angles are the same, and each finite seed has grown by
\* MOUSE_SCALE / distance (without bound at distance zero, as the f32 quotient
\* is), by strictly more for a closer particle than for a farther one.  A tick
\* without attractor leaves the seed of every retained particle as it was, so
\* that a seed is the spawn time until an attractor acts.
C17_AttractorChangesSeedsOnly ==
    /\ [](attracted = 0 => \A i \in DOMAIN stars : stars[i].seed = stars[i].born)
    /\ [][ticks' = ticks + 1 =>
            LET t == Tick(Sim, Screen, NoMouse, start)
                grown(i) == stars'[i].seed - t.stars[i].seed
            IN  /\ <<angle', angle_delta', last_star', now'>> = <<t.angle, t.angle_delta, t.last_star, t.now>>
                /\ DOMAIN stars' = DOMAIN t.stars
                /\ \A i \in DOMAIN stars' :
                       /\ [stars'[i] EXCEPT !.seed = 0] = [t.stars[i] EXCEPT !.seed = 0]
                       /\ mouse = NoMouse => stars'[i].seed = t.stars[i].seed
                       /\ (mouse # NoMouse /\ t.stars[i].seed # F32Inf) =>
                              /\ grown(i) > 0
                              /\ DistSqr(stars'[i], mouse) # 0 =>
                                     grown(i) = RoundDiv(MOUSE_SCALE * PosScale * Milli, RoundNorm(<<mouse[1] - stars'[i].pos[1], mouse[2] - stars'[i].pos[2]>>))
                              /\ \A j \in DOMAIN stars' :
                                     (t.stars[j].seed # F32Inf /\ DistSqr(stars'[i], mouse) < DistSqr(stars'[j], mouse))
                                         => grown(i) > grown(j)
                /\ \A i \in DOMAIN stars', j \in DOMAIN stars :
                       (mouse = NoMouse /\ stars'[i].born = stars[j].born) => stars'[i].seed = stars[j].seed]_vars

\* C17's case: a tick has acted with an attractor on two particles at
\* different non-zero distances: both seeds have left the spawn time, the
\* closer particle's by more.
C17_Witness ==
    /\ attracted > 0 /\ mouse # NoMouse
    /\ \E i, j \in DOMAIN stars :
           /\ 0 < DistSqr(stars[i], mouse) /\ DistSqr(stars[i], mouse) < DistSqr(stars[j], mouse)
           /\ stars[j].seed > stars[j].born
           /\ stars[i].seed - stars[i].born > stars[j].seed - stars[j].born
           /\ stars[i].seed # F32Inf

\* the primitives of one kind that a frame has for the particle at index i
PrimsFrom(kind, i) == SelectSeq(drawn, LAMBDA p : p.kind = kind /\ p.from = i)

\* the calls of draw_interp_line, one per interpolated connector, for index i
CallsFrom(i) == SelectSeq(calls, LAMBDA c : c.from = i)

\* C18: a frame of n particles has, in point mode, n filled circles, one per
\* particle in order, and no line; in line mode no circle, nothing from the
\* last particle, and from every other particle one interpolated connector
\* (one call of draw_interp_line, whose segments are the only interpolated
\* primitives) iff the primary toggle is on, and one gray line iff the
\* secondary toggle is on and at least two particles were spawned later;
\* nothing at all in line mode with both toggles off.
C18_PrimitivesByMode ==
    (rendered /\ ~panicked) =>
        LET n == Len(stars)
        IN  IF draw_mode = "Points"
            THEN /\ Len(drawn) = n /\ calls = <<>>
                 /\ \A i \in 1..n : drawn[i].kind = "circle" /\ drawn[i].from = i
                                      /\ drawn[i].start = stars[i].pos
            ELSE /\ \A p \in Range(drawn) : p.kind \in {"gray", "interp"} /\ p.from \in 1..(n - 1)
                 /\ \A c \in Range(calls) : c.from \in 1..(n - 1)
                 /\ \A i \in 1..(n - 1) :
                        /\ Len(CallsFrom(i)) = IF primary_nearest THEN 1 ELSE 0
                        /\ Len(PrimsFrom("interp", i)) = IF primary_nearest THEN CallsFrom(i)[1].segments ELSE 0
                        /\ Len(PrimsFrom("gray", i)) = IF secondary_nearest /\ n - i >= 2 THEN 1 ELSE 0
                 /\ (~primary_nearest /\ ~secondary_nearest) => drawn = <<>>

\* C18's case: a frame in line mode, both toggles on, of three particles at
\* three positions: two interpolated connectors, one gray line, nothing from
\* the last particle.
C18_Witness ==
    /\ rendered /\ draw_mode = "Lines" /\ primary_nearest /\ secondary_nearest
    /\ Len(stars) = 3
    /\ Cardinality({stars[i].pos : i \in 1..3}) = 3
    /\ Len(calls) = 2
    /\ Len(SelectSeq(drawn, LAMBDA p : p.kind = "gray")) = 1
    /\ PrimsFrom("interp", 2) # <<>>

\* C20: after every tick 0 <= now - last_star < STAR_DELAY; six ticks of the
\* truncated TICK_DURATION are short of STAR_DELAY and seven are not, so the
\* spawns are those of ticks 7, 14, 21, ..., at most one in a tick: after k
\* ticks floor(k / 7) particles have been spawned, the last one at the last
\* multiple of 7.
C20_SpawnEverySeventhTick ==
    /\ SpawnPeriod = 7
    /\ (SpawnPeriod - 1) * TICK_DURATION < STAR_DELAY
    /\ 0 <= now - last_star /\ now - last_star < STAR_DELAY
    /\ spawned = ticks \div SpawnPeriod
    /\ last_star - start = (spawned * SpawnPeriod) * TICK_DURATION
    /\ now - last_star = (ticks % SpawnPeriod) * TICK_DURATION

\* C20's case: six ticks after the second spawn, 4 ns short of STAR_DELAY,
\* with no spawn yet.
C20_Witness ==
    /\ ticks = 3 * SpawnPeriod - 1
    /\ spawned = 2
    /\ STAR_DELAY - (now - last_star) = 4

\* the least distance a particle moves in a tick along the axis it moves
\* fastest along: that of a diagonal traveller
MinStep == TickScaled(CosTable[2] * STAR_SPEED)

\* moves after which a particle is outside the bounds, whatever its direction
CrossTicks == CeilDiv(ScreenHalf + 1, MinStep)

\* the spawn times of the particles spawned early enough for a run of
\* MaxTicks ticks to see them cross the bounds
EarlyBorn ==
    {NowF32(k * SpawnPeriod * TICK_DURATION, 0) : k \in 1..((MaxTicks - CrossTicks) \div SpawnPeriod)}

IsIn(b) == \E i \in DOMAIN stars : stars[i].born = b

IsOutside(b) == \E i \in DOMAIN stars : stars[i].born = b /\ ~Contains(Screen, stars[i].pos)

\* C19: while ticks keep occurring, a particle in the collection is
\* eventually evicted (which the eviction step does to a particle outside the
\* bounds only), and so is one that is outside the bounds behind an older
\* particle; the number of retained particles never exceeds the number of
\* spawns in the time a particle takes to cross the bounds.
C19_EventuallyEvicted ==
    /\ \A b \in EarlyBorn : IsIn(b) ~> ~IsIn(b)
    /\ \A b \in EarlyBorn : (IsOutside(b) /\ stars[1].born # b) ~> ~IsIn(b)
    /\ [](Len(stars) <= CeilDiv(CrossTicks, SpawnPeriod))

\* C19's case: the particles spawned early have all been evicted, the second
\* of them after being outside the bounds behind the first, and younger
\* particles are on their way.
C19_Witness ==
    /\ Cardinality(EarlyBorn) >= 2
    /\ \A b \in EarlyBorn : ~IsIn(b)
    /\ spawned >= 2 + Len(stars)
    /\ Len(stars) >= 2

====
